---- MODULE Spec2Model ----
(***************************************************************************)
(* Model of scrapefm.py: the Last.fm scraper's run loop (Scraper.run),     *)
(* the reconciler (Scraper.rescrape), the visit of one member              *)
(* (Scraper.scrape_user and the steps it calls), the error handler         *)
(* (handle_api_errors), the two-layer cache (_Cache) and the relational    *)
(* store with its transaction (peewee tables, commit_on_success).          *)
(*                                                                         *)
(* The remote service is an input: a friendship graph and the weekly       *)
(* listings are chosen in Init and stay fixed; whether a remote request    *)
(* fails is chosen at every request.                                       *)
(***************************************************************************)
EXTENDS Integers, Sequences, FiniteSets, TLC

VARIABLES graph, quiet, db, dbc, users, artists, tags, friends, errcnt,
          opts, weeks, queue, todo, user, visit, pc, runs

vars == <<graph, quiet, db, dbc, users, artists, tags, friends, errcnt,
          opts, weeks, queue, todo, user, visit, pc, runs>>

(***************************************************************************)
(* Bounds of the model.                                                    *)
(***************************************************************************)
\* number of times the process is started against the same store
MaxRuns == 3
\* largest value of the --users option
MaxLimit == 3

(***************************************************************************)
(* Program constants.                                                      *)
(***************************************************************************)
\* Scraper.ERRLIM (100 in the source; scaled down, the handler only
\* compares the counter with it)
ERRLIM == 3
\* the cap of n_of_x(10, ...) in run()
SampleCap == 10
\* the value a failed scrape_user returns (Python's None)
None == 0
\* the tables initdb creates, in the order Users, Artists, Tags, Friends,
\* WeeklyArtistChart, ArtistTags
NTables == 6
\* the tables Scraper.__init__ reads into caches are the first four
NCached == 4
\* the Artists table is the second one initdb creates
NArtists == 2
\* get_scraped reads WeeklyArtistChart, the fifth table
NCharted == 5

(***************************************************************************)
(* The remote service.                                                     *)
(***************************************************************************)
Names == {"RJ", "A", "B"}
\* options.username, the --seed default
Seed == "RJ"
\* the <id> child of the user.getInfo response, which create_single stores
\* as the Users primary key
UserId == [n \in Names |-> CASE n = "RJ" -> 2 [] n = "A" -> 3 [] n = "B" -> 1]
\* the order in which the service lists names
NameOrder == <<"A", "B", "RJ">>
Edges == {{"RJ", "A"}, {"RJ", "B"}, {"A", "B"}}
\* get_weekly_chart_dates(): consecutive weeks share a boundary
AllWeeks == <<<<"t1", "t2">>, <<"t2", "t3">>>>
WeekStarts == {AllWeeks[i][1] : i \in 1..Len(AllWeeks)}
\* the listings of the members that have scrobbles
BaseChart == [n \in Names |-> [w \in WeekStarts |->
    CASE n = "RJ" /\ w = "t1" -> <<<<"x", 5>>>>
      [] n = "RJ" /\ w = "t2" -> <<>>
      [] n = "A" /\ w = "t1" -> <<<<"x", 3>>, <<"y", 2>>>>
      [] n = "A" /\ w = "t2" -> <<<<"y", 1>>>>
      [] n = "B" /\ w = "t1" -> <<<<"y", 4>>>>
      [] n = "B" /\ w = "t2" -> <<<<"x", 2>>>>]]
\* the <tag> children of the artist.getInfo response
TagsOf == [a \in {"x", "y"} |-> IF a = "x" THEN <<"rock">> ELSE <<"rock", "pop">>]

\* the members without scrobbles: none of them or all of them
QuietChoices == {{}, Names}

\* user.get_friends(maxfriends), as _get_friends returns it
_get_friends(g, n) == SelectSeq(NameOrder, LAMBDA m : m # n /\ {n, m} \in g)
\* user.get_weekly_artist_charts(weekfrom, weekto)
Chart(q, n, w) == IF n \in q THEN <<>> ELSE BaseChart[n][w]

(***************************************************************************)
(* Helpers.                                                                *)
(***************************************************************************)
Max(S) == IF S = {} THEN 0 ELSE CHOOSE m \in S : \A k \in S : k <= m
\* the row id SQLite gives the next row of a table
NextId(table) == Max({r.id : r \in table}) + 1
Range(s) == {s[i] : i \in 1..Len(s)}
\* the sublists of s that keep its order
RECURSIVE SubSeqs(_)
SubSeqs(s) ==
    IF s = <<>> THEN {<<>>}
    ELSE LET rest == SubSeqs(Tail(s))
         IN  rest \cup {<<Head(s)>> \o r : r \in rest}
\* the orderings of a finite set
RECURSIVE Perms(_)
Perms(S) ==
    IF S = {} THEN {<<>>}
    ELSE UNION {{<<x>> \o p : p \in Perms(S \ {x})} : x \in S}
EmptyMap == [k \in {} |-> None]

(***************************************************************************)
(* _Cache: a mapping with a committed layer (store) and a pending layer    *)
(* (tmp).                                                                  *)
(***************************************************************************)
\* _Cache.__init__: store holds key(row) -> value(row) for the table's rows
CacheNew(pairs) ==
    [store |-> [k \in {p[1] : p \in pairs} |->
                   (CHOOSE p \in pairs : p[1] = k)[2]],
     tmp |-> EmptyMap]
\* a lookup that forgets the store layer
CacheHasTmpOnly(c, k) == k \in DOMAIN c.tmp
\* Mapping.__contains__ over _Cache.__getitem__
CacheHas(c, k) == k \in DOMAIN c.tmp \/ k \in DOMAIN c.store
\* _Cache.__getitem__ (for a key CacheHas finds)
CacheGet(c, k) == IF k \in DOMAIN c.tmp THEN c.tmp[k] ELSE c.store[k]
\* _Cache.__setitem__
CacheSet(c, k, v) == [c EXCEPT !.tmp = (k :> v) @@ c.tmp]
\* a commit that empties tmp without merging it
CacheCommitDrops(c) == [c EXCEPT !.tmp = EmptyMap]
\* _Cache.commit
CacheCommit(c) == [store |-> c.tmp @@ c.store, tmp |-> EmptyMap]
\* a rollback that keeps the temporary values
CacheRollbackKeepsTmp(c) == c
\* _Cache.rollback
CacheRollback(c) == [c EXCEPT !.tmp = EmptyMap]
\* _Cache.__iter__ / __len__: the store layer only
CacheKeys(c) == DOMAIN c.store
CacheLen(c) == Cardinality(DOMAIN c.store)
\* __getitem__ as its callers see it: the value found, or nothing where it
\* raises KeyError
Lookup(c, k) == IF CacheHas(c, k) THEN <<CacheGet(c, k)>> ELSE <<>>

(***************************************************************************)
(* The store: six tables. db is what the connection sees, dbc what is      *)
(* committed.  `tables` is the number of tables that exist: initdb creates *)
(* them one by one, each create_table committed on its own (autocommit).   *)
(***************************************************************************)
\* the store file before initdb has created anything
NoDb ==
    [Users |-> {}, Artists |-> {}, Tags |-> {}, Friends |-> {},
     WeeklyArtistChart |-> {}, ArtistTags |-> {}, tables |-> 0]
\* initdb, lines 308-313: the first k tables exist, empty
PartialDb(k) == [NoDb EXCEPT !.tables = k]
\* initdb: the tables are created and the dud artist '' is inserted
InitDb ==
    [Users |-> {}, Artists |-> {[id |-> 1, name |-> ""]}, Tags |-> {},
     Friends |-> {}, WeeklyArtistChart |-> {}, ArtistTags |-> {},
     tables |-> NTables]
\* initdb, line 307: the tables and the dud artist are created only when
\* the Users table does not exist
initdb(d) == IF d.tables = 0 THEN InitDb ELSE d

\* Scraper.__init__, lines 163-166: the four caches are loaded from the
\* tables, each by _Cache.__init__ (lines 46-48)
LoadUsers(d) == CacheNew({<<r.name, r.id>> : r \in d.Users})
LoadArtists(d) == CacheNew({<<r.name, r.id>> : r \in d.Artists})
LoadTags(d) == CacheNew({<<r.name, r.id>> : r \in d.Tags})
LoadFriends(d) == CacheNew({<<<<r.a, r.b>>, r.id>> : r \in d.Friends})
\* how many of the four reads succeed on a store with d.tables tables: the
\* order is artists, friends, tags, users, and the tables were created in
\* the order Users, Artists, Tags, Friends
LoadLimit(d) ==
    IF d.tables < NArtists THEN 0 ELSE IF d.tables < NCached THEN 1 ELSE NCached
\* the caches when the first k reads of lines 163-166 are done; an
\* attribute not yet assigned is shown as an empty cache
Loaded(d, k) ==
    [artists |-> IF k >= 1 THEN LoadArtists(d) ELSE CacheNew({}),
     friends |-> IF k >= 2 THEN LoadFriends(d) ELSE CacheNew({}),
     tags |-> IF k >= 3 THEN LoadTags(d) ELSE CacheNew({}),
     users |-> IF k >= 4 THEN LoadUsers(d) ELSE CacheNew({})]

NoVisit == [name |-> "", userid |-> None, phase |-> "none", weeks |-> <<>>]

Options == [limit : 1..MaxLimit, do_connect : BOOLEAN]

\* the process has been started for the first time, main() is about to
\* construct the Scraper; there is no store yet
Init ==
    /\ graph \in SUBSET Edges
    /\ quiet \in QuietChoices
    /\ db = NoDb
    /\ dbc = NoDb
    /\ users = CacheNew({})
    /\ artists = CacheNew({})
    /\ tags = CacheNew({})
    /\ friends = CacheNew({})
    /\ errcnt = 0
    /\ opts \in Options
    /\ weeks = <<>>
    /\ queue = <<>>
    /\ todo = {}
    /\ user = ""
    /\ visit = NoVisit
    /\ pc = "init"
    /\ runs = 1

\* Scraper.__init__: initdb, then the four caches are read from their
\* tables; a table that is missing makes the read raise OperationalError,
\* which nothing catches, with the caches read before it in place
Construct ==
    /\ pc = "init"
    /\ db' = initdb(dbc)
    /\ dbc' = initdb(dbc)
    /\ LET c == Loaded(initdb(dbc), LoadLimit(initdb(dbc)))
       IN  /\ users' = c.users
           /\ artists' = c.artists
           /\ tags' = c.tags
           /\ friends' = c.friends
    /\ pc' = IF LoadLimit(initdb(dbc)) < NCached THEN "OperationalError"
             ELSE "start"
    /\ UNCHANGED <<graph, quiet, errcnt, opts, weeks, queue, todo, user,
                   visit, runs>>

\* the operator interrupts main() before the try statement (lines 545-549,
\* Scraper.__init__ included): nothing catches it and the store is not
\* closed.  On a new store initdb is left wherever it was: some of the
\* tables created, or all of them without the dud artist, or complete; once
\* initdb is complete any number of the caches may have been read
InterruptInit ==
    /\ pc = "init"
    /\ \E d \in IF dbc.tables = 0
                THEN {PartialDb(k) : k \in 0..NTables} \cup {InitDb}
                ELSE {dbc} :
         /\ db' = d
         /\ dbc' = d
         /\ \E k \in IF d = initdb(dbc) THEN 0..LoadLimit(d) ELSE {0} :
              /\ users' = Loaded(d, k).users
              /\ artists' = Loaded(d, k).artists
              /\ tags' = Loaded(d, k).tags
              /\ friends' = Loaded(d, k).friends
    /\ pc' = "KeyboardInterrupt"
    /\ UNCHANGED <<graph, quiet, errcnt, opts, weeks, queue, todo, user,
                   visit, runs>>


(***************************************************************************)
(* The steps of a visit. They work on st = [db, artists, tags], the part   *)
(* of the state scrape_week and scrape_artist write.                       *)
(***************************************************************************)
\* the loop body of scrape_artist without the lookup in self.tags
AddTagNoLookup(st, aid, t) ==
    LET tid == NextId(st.db.Tags)
        d1 == [st.db EXCEPT !.Tags = @ \cup {[id |-> tid, name |-> t]}]
        d2 == [d1 EXCEPT !.ArtistTags =
                  @ \cup {[id |-> NextId(@), artist |-> aid, tag |-> tid]}]
    IN  [st EXCEPT !.db = d2, !.tags = CacheSet(@, t, tid)]
\* the loop body of scrape_artist for one tag, with create_tag
AddTag(st, aid, t) ==
    LET has == CacheHas(st.tags, t)
        tid == IF has THEN CacheGet(st.tags, t) ELSE NextId(st.db.Tags)
        d1 == IF has THEN st.db
              ELSE [st.db EXCEPT !.Tags = @ \cup {[id |-> tid, name |-> t]}]
        d2 == [d1 EXCEPT !.ArtistTags =
                  @ \cup {[id |-> NextId(@), artist |-> aid, tag |-> tid]}]
    IN  [st EXCEPT !.db = d2,
                   !.tags = IF has THEN @ ELSE CacheSet(@, t, tid)]

RECURSIVE AddTags(_, _, _)
AddTags(st, aid, ts) ==
    IF ts = <<>> THEN st
    ELSE AddTags(AddTag(st, aid, Head(ts)), aid, Tail(ts))

\* a scrape_artist that hands out the id and the tags without the
\* Artists row
scrape_artist_norow(st, name) ==
    AddTags(st, NextId(st.db.Artists), TagsOf[name])
\* scrape_artist: create_artist inserts the row, then one ArtistTags row per
\* tag of the artist; the id it returns is the new row's id
scrape_artist(st, name) ==
    LET aid == NextId(st.db.Artists)
    IN  AddTags([st EXCEPT !.db.Artists = @ \cup {[id |-> aid, name |-> name]}],
                aid, TagsOf[name])

\* the loop body of scrape_week for one (artist, count) of the listing
ScrapeRow(st, userid, weekfrom, entry) ==
    LET st1 == IF CacheHas(st.artists, entry[1]) THEN st
               ELSE [scrape_artist(st, entry[1]) EXCEPT
                        !.artists = CacheSet(@, entry[1], NextId(st.db.Artists))]
    IN  [st1 EXCEPT !.db.WeeklyArtistChart =
            @ \cup {[id |-> NextId(@), user |-> userid,
                     artist |-> CacheGet(st1.artists, entry[1]),
                     weekfrom |-> weekfrom, playcount |-> entry[2]]}]

RECURSIVE ScrapeRows(_, _, _, _)
ScrapeRows(st, userid, weekfrom, listing) ==
    IF listing = <<>> THEN st
    ELSE ScrapeRows(ScrapeRow(st, userid, weekfrom, Head(listing)),
                    userid, weekfrom, Tail(listing))

\* scrape_week without the placeholder row
scrape_week_noplaceholder(st, userid, weekfrom, listing) ==
    ScrapeRows(st, userid, weekfrom, listing)
\* scrape_week: one row per listed artist, or the placeholder row that
\* references the dud artist '' when the listing is empty
scrape_week(st, userid, weekfrom, listing) ==
    IF listing # <<>> THEN ScrapeRows(st, userid, weekfrom, listing)
    ELSE [st EXCEPT !.db.WeeklyArtistChart =
            @ \cup {[id |-> NextId(@), user |-> userid,
                     artist |-> CacheGet(st.artists, ""),
                     weekfrom |-> weekfrom, playcount |-> 0]}]

\* the pair in the order the ids come
UnsortedPair(x, y) == <<x, y>>
\* tuple(sorted([userid, self.users[friend]]))
SortedPair(x, y) == IF x <= y THEN <<x, y>> ELSE <<y, x>>

\* scrape_friends: sf = [db, friends]; connects userid to the friends that
\* are already in the users cache
RECURSIVE scrape_friends(_, _, _, _)
scrape_friends(sf, ucache, userid, fl) ==
    IF fl = <<>> THEN sf
    ELSE IF ~CacheHas(ucache, Head(fl))
         THEN scrape_friends(sf, ucache, userid, Tail(fl))
    ELSE LET other == CacheGet(ucache, Head(fl))
             pair == SortedPair(userid, other)
             fid == NextId(sf.db.Friends)
             sf1 == IF CacheHas(sf.friends, pair) THEN sf
                    ELSE [db |-> [sf.db EXCEPT !.Friends =
                                     @ \cup {[id |-> fid, a |-> pair[1],
                                              b |-> pair[2]]}],
                          friends |-> CacheSet(sf.friends, pair, fid)]
         IN  scrape_friends(sf1, ucache, userid, Tail(fl))

(***************************************************************************)
(* rescrape's queries.                                                     *)
(***************************************************************************)
toscrape(ws) == {ws[i][1] : i \in 1..Len(ws)}
\* get_scraped without the filter on the user
get_scraped_anyuser(d, uid) == {r.weekfrom : r \in d.WeeklyArtistChart}
get_scraped(d, uid) == {r.weekfrom : r \in {x \in d.WeeklyArtistChart : x.user = uid}}
tbd(d, ws, uid) == toscrape(ws) \ get_scraped(d, uid)

(***************************************************************************)
(* run(): the conditions of the while loop.                                *)
(***************************************************************************)
user_pool == Len(queue) + CacheLen(users)
\* a loop test that lets one more visit start at the limit
more_work_atlimit == CacheLen(users) <= opts.limit
\* run(), line 365: self.limit > len(self.users)
more_work == CacheLen(users) < opts.limit

(***************************************************************************)
(* Actions.                                                                *)
(***************************************************************************)
\* _get_weeks: the weeks of the calendar that match the date pattern, in
\* the calendar's order
_get_weeks == SubSeqs(AllWeeks)

\* run(), lines 349-352: _get_weeks fetches the calendar of 'RJ'; rescrape
\* starts its loop over self.users.items()
GetWeeks ==
    /\ pc = "start"
    /\ \E ws \in _get_weeks :
         /\ weeks' = ws
         /\ todo' = CacheKeys(users)
         /\ pc' = "rescrape"
    /\ UNCHANGED <<graph, quiet, db, dbc, users, artists, tags, friends,
                   errcnt, opts, queue, user, visit, runs>>

\* run(), line 349: the calendar request raises; nothing in run() or main()
\* handles a pylast error raised outside scrape_user
GetWeeksFail ==
    /\ pc = "start"
    /\ pc' = "RemoteError"
    /\ UNCHANGED <<graph, quiet, db, dbc, users, artists, tags, friends,
                   errcnt, opts, weeks, queue, todo, user, visit, runs>>

\* rescrape(): one iteration of the loop over self.users.items(); the
\* query of get_scraped needs the WeeklyArtistChart table, and with
\* missing weeks the debug call reads the undefined name `name`
Rescrape ==
    /\ pc = "rescrape"
    /\ \E n \in todo :
         IF db.tables < NCharted
         THEN todo' = todo /\ pc' = "OperationalError"
         ELSE IF tbd(db, weeks, CacheGet(users, n)) = {}
         THEN todo' = todo \ {n} /\ pc' = pc
         ELSE todo' = todo /\ pc' = "NameError"
    /\ UNCHANGED <<graph, quiet, db, dbc, users, artists, tags, friends,
                   errcnt, opts, weeks, queue, user, visit, runs>>

\* a run() that goes on to the queue while rescrape still has members left
SeedQueueEarly ==
    /\ pc = "rescrape"
    /\ queue' = IF CacheLen(users) = 0 THEN <<Seed>> ELSE <<>>
    /\ pc' = "loop"
    /\ UNCHANGED <<graph, quiet, db, dbc, users, artists, tags, friends,
                   errcnt, opts, weeks, todo, user, visit, runs>>
\* run(), lines 354-357: rescrape has returned; the seed is queued if no
\* member is known
SeedQueue ==
    /\ pc = "rescrape"
    /\ todo = {}
    /\ queue' = IF CacheLen(users) = 0 THEN <<Seed>> ELSE <<>>
    /\ pc' = "loop"
    /\ UNCHANGED <<graph, quiet, db, dbc, users, artists, tags, friends,
                   errcnt, opts, weeks, todo, user, visit, runs>>

\* n_of_x(n, x): random.sample(x, min(len(x), n)), any ordering of any n of
\* the items
n_of_x(n, x) ==
    LET m == IF Len(x) < n THEN Len(x) ELSE n
    IN  UNION {Perms(S) : S \in {T \in SUBSET Range(x) : Cardinality(T) = m}}

\* run(), lines 365-368: the queue is empty; pick a random scraped user
ChooseUser ==
    /\ pc = "loop"
    /\ user_pool > 0 /\ more_work
    /\ queue = <<>>
    /\ \E u \in CacheKeys(users) : user' = u
    /\ pc' = "refill"
    /\ UNCHANGED <<graph, quiet, db, dbc, users, artists, tags, friends,
                   errcnt, opts, weeks, queue, todo, visit, runs>>

\* run(), line 369: the friends of that user are fetched and sampled; the
\* inner while loop tests the queue again
Refill ==
    /\ pc = "refill"
    /\ \E q \in n_of_x(SampleCap, _get_friends(graph, user)) : queue' = q
    /\ pc' = "loop"
    /\ UNCHANGED <<graph, quiet, db, dbc, users, artists, tags, friends,
                   errcnt, opts, weeks, todo, user, visit, runs>>

\* run(), line 369: the friends request raises, outside handle_api_errors
RefillFail ==
    /\ pc = "refill"
    /\ pc' = "RemoteError"
    /\ UNCHANGED <<graph, quiet, db, dbc, users, artists, tags, friends,
                   errcnt, opts, weeks, queue, todo, user, visit, runs>>

\* a loop that calls scrape_user for every popped name
PopAlwaysVisits ==
    /\ pc = "loop"
    /\ user_pool > 0 /\ more_work
    /\ queue # <<>>
    /\ queue' = SubSeq(queue, 1, Len(queue) - 1)
    /\ pc' = "visit"
    /\ visit' = [name |-> queue[Len(queue)], userid |-> None,
                 phase |-> "user", weeks |-> weeks]
    /\ UNCHANGED <<graph, quiet, db, dbc, users, artists, tags, friends,
                   errcnt, opts, weeks, todo, user, runs>>
\* run(), lines 370-372: pop a name; a known name is dropped, an unknown one
\* starts scrape_user
Pop ==
    /\ pc = "loop"
    /\ user_pool > 0 /\ more_work
    /\ queue # <<>>
    /\ queue' = SubSeq(queue, 1, Len(queue) - 1)
    /\ LET username == queue[Len(queue)]
       IN  IF CacheHas(users, username)
           THEN pc' = pc /\ visit' = visit
           ELSE /\ pc' = "visit"
                /\ visit' = [name |-> username, userid |-> None,
                             phase |-> "user", weeks |-> weeks]
    /\ UNCHANGED <<graph, quiet, db, dbc, users, artists, tags, friends,
                   errcnt, opts, weeks, todo, user, runs>>

\* run(), lines 365 and 375-377: the loop ends
LoopExit ==
    /\ pc = "loop"
    /\ ~(user_pool > 0 /\ more_work)
    /\ pc' = IF user_pool = 0 THEN "depleted" ELSE "done"
    /\ UNCHANGED <<graph, quiet, db, dbc, users, artists, tags, friends,
                   errcnt, opts, weeks, queue, todo, user, visit, runs>>

\* a scrape_user that scrapes friends whatever do_connect says
VisitUserAlwaysConnects ==
    /\ pc = "visit" /\ visit.phase = "user"
    /\ LET known == CacheHas(users, visit.name)
           uid == IF known THEN CacheGet(users, visit.name)
                  ELSE UserId[visit.name]
       IN  /\ db' = IF known THEN db
                    ELSE [db EXCEPT !.Users =
                             @ \cup {[id |-> uid, name |-> visit.name]}]
           /\ visit' = [visit EXCEPT !.userid = uid, !.phase = "friends"]
    /\ UNCHANGED <<graph, quiet, dbc, users, artists, tags, friends, errcnt,
                   opts, weeks, queue, todo, user, pc, runs>>
\* scrape_user, lines 438-443: create the Users row of an unknown name
VisitUser ==
    /\ pc = "visit" /\ visit.phase = "user"
    /\ LET known == CacheHas(users, visit.name)
           uid == IF known THEN CacheGet(users, visit.name)
                  ELSE UserId[visit.name]
       IN  /\ db' = IF known THEN db
                    ELSE [db EXCEPT !.Users =
                             @ \cup {[id |-> uid, name |-> visit.name]}]
           /\ visit' = [visit EXCEPT !.userid = uid,
                           !.phase = IF opts.do_connect THEN "friends"
                                     ELSE "weeks"]
    /\ UNCHANGED <<graph, quiet, dbc, users, artists, tags, friends, errcnt,
                   opts, weeks, queue, todo, user, pc, runs>>

\* scrape_user, lines 446-447
VisitFriends ==
    /\ pc = "visit" /\ visit.phase = "friends"
    /\ LET sf == scrape_friends([db |-> db, friends |-> friends], users,
                                visit.userid, _get_friends(graph, visit.name))
       IN  db' = sf.db /\ friends' = sf.friends
    /\ visit' = [visit EXCEPT !.phase = "weeks"]
    /\ UNCHANGED <<graph, quiet, dbc, users, artists, tags, errcnt,
                   opts, weeks, queue, todo, user, pc, runs>>

\* the listing of the week the visit is about to scrape
WeekListing == Chart(quiet, visit.name, Head(visit.weeks)[1])

\* the exception scrape_week dies of on a store whose initdb was cut short,
\* "" if none.  Empty listing: self.artists[''] (line 483) raises KeyError
\* without the dud artist.  Listed artists: no Artists row is committed
\* while a table is missing, so the first artist is not cached and the
\* ArtistTags.create of its first tag (line 393) fails on the missing table
WeekCrash ==
    IF WeekListing = <<>>
    THEN IF ~CacheHas(artists, "") THEN "KeyError"
         ELSE IF db.tables < NCharted THEN "OperationalError" ELSE ""
    ELSE IF db.tables < NTables THEN "OperationalError" ELSE ""

\* the tags cache when scrape_artist(name) has got as far as the first t
\* tags of the artist (lines 390-393)
TagCut(st, name, t) ==
    LET aid == NextId(st.db.Artists)
    IN  AddTags([st EXCEPT !.db.Artists = @ \cup {[id |-> aid, name |-> name]}],
                aid, SubSeq(TagsOf[name], 1, t)).tags

\* scrape_user, lines 450-451: one iteration, one scrape_week
VisitWeek ==
    /\ pc = "visit" /\ visit.phase = "weeks" /\ visit.weeks # <<>>
    /\ WeekCrash = ""
    /\ LET w == Head(visit.weeks)
           st == scrape_week([db |-> db, artists |-> artists, tags |-> tags],
                             visit.userid, w[1], Chart(quiet, visit.name, w[1]))
       IN  db' = st.db /\ artists' = st.artists /\ tags' = st.tags
    /\ visit' = [visit EXCEPT !.weeks = Tail(@)]
    /\ UNCHANGED <<graph, quiet, dbc, users, friends, errcnt,
                   opts, weeks, queue, todo, user, pc, runs>>

\* a rollback that goes back to the store as initdb left it
commit_on_success_resets(raised, d, dc) == IF raised THEN InitDb ELSE d
\* a transaction that keeps what was written when the call raises
commit_on_success_keeps(raised, d, dc) == d
\* DBASE.commit_on_success around scrape_user: the store after the call,
\* given what the connection sees (d) and what is committed (dc)
commit_on_success(raised, d, dc) == IF raised THEN dc ELSE d

\* scrape_week raises an exception that is not a pylast error:
\* commit_on_success rolls back and re-raises, handle_api_errors, run() and
\* main() let it through; the store is not closed
VisitCrash ==
    /\ pc = "visit" /\ visit.phase = "weeks" /\ visit.weeks # <<>>
    /\ WeekCrash # ""
    /\ db' = commit_on_success(TRUE, db, dbc)
    /\ dbc' = commit_on_success(TRUE, db, dbc)
    /\ tags' = IF WeekListing = <<>> THEN tags
               ELSE TagCut([db |-> db, artists |-> artists, tags |-> tags],
                           WeekListing[1][1], 1)
    /\ weeks' = <<>>
    /\ queue' = <<>>
    /\ visit' = NoVisit
    /\ pc' = WeekCrash
    /\ UNCHANGED <<graph, quiet, users, artists, friends, errcnt, opts,
                   todo, user, runs>>

\* _cache_sync that commits whatever scrape_user returned
_cache_sync_always(do_commit, c) == CacheCommit(c)
\* _cache_sync, for one cache of self.caches
_cache_sync(do_commit, c) == IF do_commit THEN CacheCommit(c) ELSE CacheRollback(c)

\* scrape_user returns its userid: commit_on_success commits the store
\* (line 428); the value is on its way to line 372
VisitCommit ==
    /\ pc = "visit" /\ visit.phase = "weeks" /\ visit.weeks = <<>>
    /\ db' = commit_on_success(FALSE, db, dbc)
    /\ dbc' = commit_on_success(FALSE, db, dbc)
    /\ pc' = "assign"
    /\ UNCHANGED <<graph, quiet, users, artists, tags, friends, errcnt, opts,
                   weeks, queue, todo, user, visit, runs>>

\* run(), line 372: self.users[username] = <what scrape_user returned>
AssignUser ==
    /\ pc = "assign"
    /\ users' = CacheSet(users, visit.name, visit.userid)
    /\ pc' = "sync"
    /\ UNCHANGED <<graph, quiet, db, dbc, artists, tags, friends, errcnt,
                   opts, weeks, queue, todo, user, visit, runs>>

\* run(), line 373: self._cache_sync(self.users[username] is not None)
CacheSync ==
    /\ pc = "sync"
    /\ LET ok == CacheGet(users, visit.name) # None
       IN  /\ users' = _cache_sync(ok, users)
           /\ artists' = _cache_sync(ok, artists)
           /\ tags' = _cache_sync(ok, tags)
           /\ friends' = _cache_sync(ok, friends)
    /\ visit' = NoVisit
    /\ pc' = "loop"
    /\ UNCHANGED <<graph, quiet, db, dbc, errcnt, opts, weeks, queue, todo,
                   user, runs>>

\* the next step of the visit makes a remote request
Fetches ==
    \/ visit.phase = "user" /\ ~CacheHas(users, visit.name)
    \/ visit.phase = "friends"
    \/ visit.phase = "weeks" /\ visit.weeks # <<>>

\* what the failing step wrote before it raised: in scrape_week the first k
\* artists of the listing are done when the request for the next one fails
Partial(k) ==
    IF visit.phase = "weeks" /\ visit.weeks # <<>> /\ k > 0
    THEN LET w == Head(visit.weeks)
         IN  ScrapeRows([db |-> db, artists |-> artists, tags |-> tags],
                        visit.userid, w[1],
                        SubSeq(Chart(quiet, visit.name, w[1]), 1, k))
    ELSE [db |-> db, artists |-> artists, tags |-> tags]

\* the artists of the listing at which scrape_week makes a request
FailPoints ==
    IF visit.phase = "weeks" /\ visit.weeks # <<>> /\ WeekCrash = ""
    THEN LET l == Chart(quiet, visit.name, Head(visit.weeks)[1])
         IN  {0} \cup {k \in 1..(Len(l) - 1) :
                          ~CacheHas(Partial(k).artists, l[k + 1][1])}
    ELSE {0}

\* a remote request of scrape_user raises: commit_on_success rolls the store
\* back and handle_api_errors counts the error (line 290); the caches keep
\* what the visit wrote
VisitFail ==
    /\ pc = "visit" /\ Fetches
    /\ \E k \in FailPoints :
         LET st == Partial(k)
         IN  /\ db' = commit_on_success(TRUE, st.db, dbc)
             /\ dbc' = commit_on_success(TRUE, st.db, dbc)
             /\ errcnt' = errcnt + 1
             /\ artists' = st.artists
             /\ tags' = st.tags
    /\ pc' = "counted"
    /\ UNCHANGED <<graph, quiet, users, friends, opts, weeks, queue, todo,
                   user, visit, runs>>

\* handle_api_errors, lines 291-295: below ERRLIM the error is logged and
\* None returned (on its way to line 372), else ScraperException is raised
HandlerReturn ==
    /\ pc = "counted"
    /\ IF errcnt < ERRLIM
       THEN /\ visit' = [visit EXCEPT !.userid = None]
            /\ pc' = "assign"
       ELSE /\ visit' = visit
            /\ pc' = "toomany"
    /\ UNCHANGED <<graph, quiet, db, dbc, users, artists, tags, friends,
                   errcnt, opts, weeks, queue, todo, user, runs>>

\* a main() that lets the operator's interrupt through
HandledScraperOnly(exc) == exc = "ScraperException"
\* main(), line 553: the exceptions of run() that main() catches
Handled(exc) == exc \in {"ScraperException", "KeyboardInterrupt"}

\* the caches of the Scraper as a record
TheCaches ==
    [users |-> users, artists |-> artists, tags |-> tags, friends |-> friends]

\* where an interrupt can cut scrape_friends: after the first m friends
FriendCuts ==
    LET fl == _get_friends(graph, visit.name)
    IN  {[TheCaches EXCEPT !.friends =
              scrape_friends([db |-> db, friends |-> friends], users,
                             visit.userid, SubSeq(fl, 1, m)).friends] :
            m \in 0..Len(fl)}

\* where an interrupt can cut scrape_week: after the first k artists of the
\* listing, or inside scrape_artist for the next one, after t of its tags
\* and before line 475 writes the artists cache
WeekCuts ==
    LET l == WeekListing
        st0 == [db |-> db, artists |-> artists, tags |-> tags]
    IN  IF WeekCrash # ""
        THEN {TheCaches} \cup
             {[TheCaches EXCEPT !.tags = TagCut(st0, l[1][1], 1)] :
                 x \in IF l = <<>> THEN {} ELSE {1}}
        ELSE {[TheCaches EXCEPT !.artists = Partial(k).artists,
                                !.tags = Partial(k).tags] : k \in 0..Len(l)}
             \cup
             UNION {{[TheCaches EXCEPT
                         !.artists = Partial(k).artists,
                         !.tags = TagCut(Partial(k), l[k + 1][1], t)] :
                       t \in 1..Len(TagsOf[l[k + 1][1]])} :
                    k \in {i \in 0..(Len(l) - 1) :
                              ~CacheHas(Partial(i).artists, l[i + 1][1])}}

\* _Cache.commit, line 68 alone: tmp is merged into store and not yet
\* emptied
CacheMerge(c) == [c EXCEPT !.store = c.tmp @@ c.store]
\* one cache of self.caches when an interrupt cuts _cache_sync: untouched,
\* done, or (commit only, rollback being one statement) between lines 68
\* and 69
SyncCut(ok, c, how) ==
    IF how = "done" THEN _cache_sync(ok, c)
    ELSE IF how = "half" /\ ok THEN CacheMerge(c)
    ELSE c
\* where an interrupt can cut _cache_sync (line 373): self.caches is in
\* dict order, so any of the four may be done and any not, and at most one
\* is inside its commit
SyncCuts ==
    LET ok == CacheGet(users, visit.name) # None
        C == {"users", "artists", "tags", "friends"}
        How(S, M, n) == IF n \in S THEN "done"
                        ELSE IF n \in M THEN "half" ELSE "not"
    IN  UNION {{[users |-> SyncCut(ok, users, How(S, M, "users")),
                 artists |-> SyncCut(ok, artists, How(S, M, "artists")),
                 tags |-> SyncCut(ok, tags, How(S, M, "tags")),
                 friends |-> SyncCut(ok, friends, How(S, M, "friends"))] :
                  M \in {{}} \cup {{m} : m \in C \ S}} :
               S \in SUBSET C}

\* the caches an interrupt can leave behind, by where run() is
InterruptCuts ==
    IF pc = "visit" /\ visit.phase = "friends" THEN FriendCuts
    ELSE IF pc = "visit" /\ visit.phase = "weeks" /\ visit.weeks # <<>>
    THEN WeekCuts
    ELSE IF pc = "sync" THEN SyncCuts
    ELSE {TheCaches}

\* the operator interrupts run() (KeyboardInterrupt): inside scrape_user the
\* bare except of commit_on_success rolls the store back and re-raises and
\* handle_api_errors lets it through; after scrape_user has returned the
\* store keeps what was committed.  run()'s frame (queue, weeks, user) is
\* gone when main() gets it, and the caches stay where the interrupt found
\* them
Interrupt ==
    /\ pc \in {"start", "rescrape", "loop", "refill", "visit", "counted",
               "assign", "sync"}
    /\ db' = IF pc = "visit" THEN commit_on_success(TRUE, db, dbc) ELSE db
    /\ dbc' = IF pc = "visit" THEN commit_on_success(TRUE, db, dbc) ELSE dbc
    /\ \E c \in InterruptCuts :
         /\ users' = c.users
         /\ artists' = c.artists
         /\ tags' = c.tags
         /\ friends' = c.friends
    /\ weeks' = <<>>
    /\ queue' = <<>>
    /\ todo' = {}
    /\ user' = ""
    /\ visit' = NoVisit
    /\ pc' = IF Handled("KeyboardInterrupt") THEN "interrupted"
             ELSE "KeyboardInterrupt"
    /\ UNCHANGED <<graph, quiet, errcnt, opts, runs>>

\* the operator interrupts main() after the try statement (lines 554-555),
\* before the store is closed: nothing catches it
InterruptExit ==
    /\ pc \in {"done", "depleted", "toomany", "interrupted"}
    /\ db' = dbc
    /\ pc' = "KeyboardInterrupt"
    /\ UNCHANGED <<graph, quiet, dbc, users, artists, tags, friends, errcnt,
                   opts, weeks, queue, todo, user, visit, runs>>

\* main(), lines 553-555: run() returned or raised an exception main()
\* catches; the store is closed, what was not committed is lost
Close ==
    /\ pc \in {"done", "depleted", "toomany", "interrupted"}
    /\ db' = dbc
    /\ pc' = "closed"
    /\ UNCHANGED <<graph, quiet, dbc, users, artists, tags, friends, errcnt,
                   opts, weeks, queue, todo, user, visit, runs>>

\* the process is started again on the same file: what the last process
\* had not committed is gone, and main() is about to construct the Scraper
Restart ==
    /\ pc \in {"closed", "NameError", "RemoteError", "KeyboardInterrupt",
               "OperationalError", "KeyError"}
    /\ runs < MaxRuns
    /\ runs' = runs + 1
    /\ db' = dbc
    /\ users' = CacheNew({})
    /\ artists' = CacheNew({})
    /\ tags' = CacheNew({})
    /\ friends' = CacheNew({})
    /\ errcnt' = 0
    /\ opts' \in Options
    /\ weeks' = <<>>
    /\ queue' = <<>>
    /\ todo' = {}
    /\ user' = ""
    /\ visit' = NoVisit
    /\ pc' = "init"
    /\ UNCHANGED <<graph, quiet, dbc>>

Next ==
    \/ Construct
    \/ InterruptInit
    \/ GetWeeks
    \/ GetWeeksFail
    \/ Rescrape
    \/ SeedQueue
    \/ ChooseUser
    \/ Refill
    \/ RefillFail
    \/ Pop
    \/ LoopExit
    \/ VisitUser
    \/ VisitFriends
    \/ VisitWeek
    \/ VisitCrash
    \/ VisitCommit
    \/ AssignUser
    \/ CacheSync
    \/ VisitFail
    \/ HandlerReturn
    \/ Interrupt
    \/ InterruptExit
    \/ Close
    \/ Restart

Spec == Init /\ [][Next]_vars

\* the steps the single thread takes when the remote service answers
Progress ==
    \/ Construct
    \/ GetWeeks
    \/ Rescrape
    \/ SeedQueue
    \/ ChooseUser
    \/ Refill
    \/ Pop
    \/ LoopExit
    \/ VisitUser
    \/ VisitFriends
    \/ VisitWeek
    \/ VisitCrash
    \/ VisitCommit
    \/ HandlerReturn
    \/ AssignUser
    \/ CacheSync
    \/ Close

\* the run does not stop while it has a step to take
FairSpec == Spec /\ WF_vars(Progress)

\* the scenario of the spec as the first start: empty store, limit 3, no
\* edge recording, RJ's friends A and B, no scrobbles; later starts are
\* free
ScenarioInit ==
    /\ Init
    /\ opts = [limit |-> 3, do_connect |-> FALSE]
    /\ quiet = Names
    /\ {{"RJ", "A"}, {"RJ", "B"}} \subseteq graph

ScenarioSpec == ScenarioInit /\ [][Next]_vars /\ WF_vars(Progress)

(***************************************************************************)
(* _Cache on its own: one cache, any store layer to start with, and any    *)
(* sequence of writes, commits and rollbacks.  The cache under test is     *)
(* `users`; `artists` keeps a copy of it as it was after the last commit    *)
(* or rollback (or after construction).                                    *)
(***************************************************************************)
\* the largest row id handed to the cache
MaxVal == 2
CacheKeySet == Names
CacheVals == 1..MaxVal

\* _Cache.__init__: store is the table's content, tmp is empty
CacheInit ==
    /\ \E D \in SUBSET CacheKeySet : \E f \in [D -> CacheVals] :
         /\ users = [store |-> f, tmp |-> EmptyMap]
         /\ artists = [store |-> f, tmp |-> EmptyMap]
    /\ graph = {}
    /\ quiet = {}
    /\ db = InitDb
    /\ dbc = InitDb
    /\ tags = CacheNew({})
    /\ friends = CacheNew({})
    /\ errcnt = 0
    /\ opts = [limit |-> 1, do_connect |-> FALSE]
    /\ weeks = <<>>
    /\ queue = <<>>
    /\ todo = {}
    /\ user = ""
    /\ visit = NoVisit
    /\ pc = "new"
    /\ runs = 1

\* cache[k] = v
CacheSetItem ==
    /\ \E k \in CacheKeySet, v \in CacheVals : users' = CacheSet(users, k, v)
    /\ pc' = "set"
    /\ UNCHANGED <<graph, quiet, db, dbc, artists, tags, friends, errcnt, opts,
                   weeks, queue, todo, user, visit, runs>>

\* cache.commit()
CacheDoCommit ==
    /\ users' = CacheCommit(users)
    /\ artists' = CacheCommit(users)
    /\ pc' = "commit"
    /\ UNCHANGED <<graph, quiet, db, dbc, tags, friends, errcnt, opts,
                   weeks, queue, todo, user, visit, runs>>

\* cache.rollback()
CacheDoRollback ==
    /\ users' = CacheRollback(users)
    /\ artists' = CacheRollback(users)
    /\ pc' = "rollback"
    /\ UNCHANGED <<graph, quiet, db, dbc, tags, friends, errcnt, opts,
                   weeks, queue, todo, user, visit, runs>>

CacheNext ==
    \/ CacheSetItem
    \/ CacheDoCommit
    \/ CacheDoRollback

CacheSpec == CacheInit /\ [][CacheNext]_vars

TypeOK == pc \in {"init", "start", "rescrape", "loop", "refill", "visit", "counted",
                  "assign", "sync", "interrupted", "KeyboardInterrupt",
                  "done", "depleted", "toomany", "closed", "NameError",
                  "RemoteError", "OperationalError", "KeyError"}


(***************************************************************************)
(* Properties.                                                             *)
(***************************************************************************)
ArtistNames == {"", "x", "y"}
TagNames == {"rock", "pop"}
Ids == {UserId[n] : n \in Names}
\* the WeeklyArtistChart rows of one member and one week
WeekRows(d, uid, w) ==
    {r \in d.WeeklyArtistChart : r.user = uid /\ r.weekfrom = w}
\* the row references the dud artist ''
IsPlaceholder(d, r) == \E a \in d.Artists : a.id = r.artist /\ a.name = ""
\* no visit is in flight and the run has not been aborted inside one
BetweenVisits ==
    pc \in {"start", "rescrape", "loop", "refill", "done", "depleted"}

\* C1: between two visits, each of the four caches finds a key exactly when
\* the committed store holds a row with that key.
Thm_C1 ==
    BetweenVisits =>
        /\ \A n \in Names :
             CacheHas(users, n) <=> \E r \in dbc.Users : r.name = n
        /\ \A a \in ArtistNames :
             CacheHas(artists, a) <=> \E r \in dbc.Artists : r.name = a
        /\ \A t \in TagNames :
             CacheHas(tags, t) <=> \E r \in dbc.Tags : r.name = t
        /\ \A p \in Ids \X Ids :
             CacheHas(friends, p) <=> \E r \in dbc.Friends : <<r.a, r.b>> = p

\* a rolled-back visit and committed visits that wrote to all four tables
Wit_C1 ==
    /\ pc = "loop"
    /\ errcnt > 0
    /\ Cardinality(dbc.Users) > 1
    /\ dbc.Friends # {}
    /\ Cardinality(dbc.Artists) > 1
    /\ dbc.Tags # {}

\* C2: a step in which a remote request of scrape_user fails leaves the
\* store as it was committed before the visit (no row of the attempt in any
\* table), and when run() is back in its loop after the failed visit the
\* store is still so and the member is outside the users cache, so that it
\* is visited when its name is popped again.
Thm_C2 ==
    [][/\ (pc = "visit" /\ errcnt' = errcnt + 1) =>
            /\ db' = dbc
            /\ dbc' = dbc
            /\ ~\E r \in db'.Users : r.name = visit.name
            /\ \A w \in WeekStarts :
                 WeekRows(db', UserId[visit.name], w) = {}
            /\ ~\E r \in db'.Friends : UserId[visit.name] \in {r.a, r.b}
            /\ ~CacheHas(users', visit.name)
       /\ (pc = "counted" \/ (pc \in {"assign", "sync"} /\ visit.userid = None)) =>
            /\ db' = dbc /\ dbc' = dbc /\ db = dbc
            /\ ~\E r \in dbc.Users : r.name = visit.name
            /\ pc' = "loop" => ~CacheHas(users', visit.name)]_vars

\* the request that failed came after the profile row and after some, not
\* all, weeks were written
Wit_C2 ==
    /\ pc = "toomany"
    /\ visit.phase = "weeks"
    /\ visit.weeks # <<>>
    /\ Len(visit.weeks) < Len(weeks)
    /\ DOMAIN artists.tmp # {}
    /\ db = dbc
    /\ ~CacheHas(users, visit.name)

\* C3: the run stops with the too-many-errors ScraperException exactly when
\* the error counter reaches ERRLIM, and no fatal stop (ScraperException)
\* happens with fewer than ERRLIM failures counted.
CE_C3 ==
    /\ pc = "toomany" => errcnt = ERRLIM
    /\ errcnt = ERRLIM => pc \in {"counted", "toomany", "interrupted",
                                   "closed", "KeyboardInterrupt"}
    /\ pc \in {"toomany", "depleted"} => errcnt >= ERRLIM

\* C4: every Friends row has a <= b and no two rows join the same two
\* members, in the store as the connection sees it and as committed.
Thm_C4 ==
    \A d \in {db, dbc} :
        /\ \A r \in d.Friends : r.a <= r.b
        /\ \A r1, r2 \in d.Friends :
             {r1.a, r1.b} = {r2.a, r2.b} => r1 = r2

\* the member visited second has the smaller id in one row and the larger
\* in another, and a visit was rolled back before
Wit_C4 ==
    /\ errcnt > 0
    /\ \E r \in dbc.Friends : r.a = UserId["B"] /\ r.b = UserId[Seed]
    /\ \E r \in dbc.Friends : r.a = UserId[Seed] /\ r.b = UserId["A"]

\* the rows of one member and week agree with the listing the service has
SentinelOk(d, n, w) ==
    LET rows == WeekRows(d, UserId[n], w)
    IN  /\ Chart(quiet, n, w) = <<>> =>
              /\ Cardinality(rows) = 1
              /\ \A r \in rows : IsPlaceholder(d, r) /\ r.playcount = 0
        /\ Chart(quiet, n, w) # <<>> =>
              /\ rows # {}
              /\ \A r \in rows : ~IsPlaceholder(d, r)

\* C5: a visit that is about to commit has written, for every target week,
\* at least one row: exactly one placeholder row with playcount 0 when the
\* listing is empty, and no placeholder row otherwise; and every member and
\* week with rows in the committed store keeps that shape.
Thm_C5 ==
    /\ (pc = "visit" /\ visit.phase = "weeks" /\ visit.weeks = <<>>) =>
           \A w \in toscrape(weeks) : SentinelOk(db, visit.name, w)
    /\ \A n \in Names : \A w \in WeekStarts :
           WeekRows(dbc, UserId[n], w) # {} => SentinelOk(dbc, n, w)

\* one committed member has a placeholder week and a week with artists
Wit_C5 ==
    \E r1, r2 \in dbc.WeeklyArtistChart :
        /\ r1.user = r2.user
        /\ IsPlaceholder(dbc, r1)
        /\ ~IsPlaceholder(dbc, r2)

\* C6: when rescrape has run to completion, every committed member has a
\* row for every target week-start, so running it again with the same week
\* list finds nothing missing: it issues no visit and inserts no row.
Thm_C6 ==
    (pc = "rescrape" /\ todo = {}) =>
        \A r \in dbc.Users : \A i \in 1..Len(weeks) :
            \E x \in dbc.WeeklyArtistChart :
                x.user = r.id /\ x.weekfrom = weeks[i][1]

\* rescrape completed over several committed members and a week list, in a
\* run after the one that committed them
Wit_C6 ==
    /\ pc = "rescrape"
    /\ todo = {}
    /\ runs = 3
    /\ Cardinality(dbc.Users) > 1
    /\ Len(weeks) > 0

\* C7: a step of rescrape either skips a member with no missing week or
\* starts scrape_user for a member with exactly the target pairs whose
\* week-start is missing.
CE_C7 ==
    [][pc = "rescrape" =>
          \/ pc' = "loop"
          \/ pc' = "interrupted"
          \/ pc' = "OperationalError"
          \/ /\ pc' = "rescrape"
             /\ \E n \in todo :
                  /\ todo' = todo \ {n}
                  /\ tbd(db, weeks, CacheGet(users, n)) = {}
          \/ /\ pc' = "visit"
             /\ \E n \in todo :
                  /\ tbd(db, weeks, CacheGet(users, n)) # {}
                  /\ visit'.name = n
                  /\ Range(visit'.weeks) =
                       {weeks[i] : i \in {j \in 1..Len(weeks) :
                           weeks[j][1] \in tbd(db, weeks, CacheGet(users, n))}}]_vars

\* C8: the store holds at most one WeeklyArtistChart row per (member,
\* week-start, artist), and the week a visit is about to fetch has no row
\* for that member yet.
Thm_C8 ==
    /\ \A r1, r2 \in db.WeeklyArtistChart :
         (r1.user = r2.user /\ r1.weekfrom = r2.weekfrom
            /\ r1.artist = r2.artist) => r1 = r2
    /\ (pc = "visit" /\ visit.phase = "weeks" /\ visit.weeks # <<>>) =>
         WeekRows(db, visit.userid, Head(visit.weeks)[1]) = {}

\* a visit of a later run is about to fetch a week while the store holds
\* the weeks of the members committed before
Wit_C8 ==
    /\ runs > 1
    /\ pc = "visit"
    /\ visit.phase = "weeks"
    /\ visit.weeks # <<>>
    /\ dbc.WeeklyArtistChart # {}

\* below the limit, nothing is queued but known names and every friend of
\* every known member is known
Exhausted ==
    /\ pc \in {"loop", "refill"}
    /\ more_work
    /\ CacheKeys(users) # {}
    /\ Range(queue) \subseteq CacheKeys(users)
    /\ \A u \in CacheKeys(users) :
         Range(_get_friends(graph, u)) \subseteq CacheKeys(users)

\* C9: once the frontier is exhausted below the limit, the run eventually
\* stops with 'User pool depleted prematurely' (unless a friends request
\* fails or the operator interrupts first).
CE_C9 == Exhausted ~> (pc \in {"depleted", "RemoteError", "interrupted"})

\* C10: a visit that fails with the error count still below ERRLIM returns
\* to run(), and when run() is back at its loop after it the loop goes on
\* (its condition holds) and the member is outside the users cache.
CE_C10 ==
    [][/\ (pc = "visit" /\ errcnt' = errcnt + 1) => pc' = "counted"
       /\ (pc = "counted" /\ errcnt < ERRLIM /\ pc' # "interrupted") =>
            pc' = "assign"
       /\ (pc = "sync" /\ visit.userid = None /\ pc' = "loop") =>
            /\ (user_pool > 0 /\ more_work)'
            /\ ~CacheHas(users', visit.name)]_vars


\* C11: the store holds at most one Artists row and one Tags row per name,
\* in what the connection sees (so no row is inserted for a name that has
\* one) and in what is committed.
Thm_C11 ==
    \A d \in {db, dbc} :
        /\ \A r1, r2 \in d.Artists : r1.name = r2.name => r1 = r2
        /\ \A r1, r2 \in d.Tags : r1.name = r2.name => r1 = r2

\* both artists, which share a tag, are committed, each listened to by more
\* than one member, and a visit was rolled back on the way
Wit_C11 ==
    /\ errcnt > 0
    /\ {r.name : r \in dbc.Artists} = ArtistNames
    /\ {r.name : r \in dbc.Tags} = TagNames
    /\ Cardinality(dbc.ArtistTags) = 3
    /\ \A a \in dbc.Artists : a.name # "" =>
         Cardinality({r.user : r \in {x \in dbc.WeeklyArtistChart :
                                         x.artist = a.id}}) > 1

\* the scenario of the spec in its run: first run on an empty store, limit
\* 3, no edge recording, the one matched week W1, RJ's friends A and B, no
\* scrobbles
Scenario ==
    /\ runs = 1
    /\ opts = [limit |-> 3, do_connect |-> FALSE]
    /\ weeks = <<AllWeeks[1]>>
    /\ quiet = Names
    /\ {{"RJ", "A"}, {"RJ", "B"}} \subseteq graph

\* a remote request has failed or the operator has interrupted
Disturbed == errcnt > 0 \/ pc \in {"RemoteError", "interrupted", "closed"}

\* C12: under ScenarioSpec, in the scenario, without remote failure, the
\* run reaches the normal return of run(), never a fatal stop, and then
\* Users holds exactly RJ, A and B, WeeklyArtistChart exactly one
\* placeholder row with playcount 0 per member, and Friends nothing.
Thm_C12 ==
    /\ [](Scenario /\ errcnt = 0 =>
             /\ pc \notin {"depleted", "toomany", "NameError"}
             /\ pc = "done" =>
                  /\ {r.name : r \in dbc.Users} = {"RJ", "A", "B"}
                  /\ Cardinality(dbc.Users) = 3
                  /\ Cardinality(dbc.WeeklyArtistChart) = 3
                  /\ \A n \in Names :
                       \E r \in dbc.WeeklyArtistChart :
                           /\ r.user = UserId[n]
                           /\ r.weekfrom = AllWeeks[1][1]
                           /\ IsPlaceholder(dbc, r)
                           /\ r.playcount = 0
                  /\ dbc.Friends = {}
                  /\ db = dbc)
    /\ (Scenario /\ pc = "rescrape") ~> (pc = "done" \/ Disturbed)

\* the scenario has run to its normal end
Wit_C12 == Scenario /\ pc = "done" /\ errcnt = 0 /\ Cardinality(dbc.Users) = 3

\* C13: a step in which the operator's interrupt ends run() (in the
\* reconciler, in a visit, between scrape_user and the cache sync, or
\* between visits) leaves the store as it was committed (a visit in flight
\* is rolled back, no committed row is lost) on the path on which main()
\* closes the store; the store then holds nothing uncommitted, the close is
\* the step main() takes unless it is interrupted again, and it changes no
\* committed row.
Thm_C13 ==
    /\ [](pc = "interrupted" => (ENABLED Close /\ db = dbc))
    /\ [][/\ (pc \in {"start", "rescrape", "loop", "refill", "visit",
                      "counted", "assign", "sync"}
               /\ pc' \in {"interrupted", "KeyboardInterrupt"}) =>
                 (pc' = "interrupted" /\ db' = dbc /\ dbc' = dbc)
          /\ (pc = "interrupted" /\ pc' # "KeyboardInterrupt") =>
                 (pc' = "closed" /\ db' = dbc /\ dbc' = dbc)]_vars

\* the store was closed after an interrupt that met a visit with rows
\* written, after earlier visits had committed theirs
Wit_C13 ==
    /\ pc = "closed"
    /\ DOMAIN artists.tmp # {}
    /\ errcnt = 0
    /\ Cardinality(dbc.Users) > 1
    /\ dbc.WeeklyArtistChart # {}
    /\ db = dbc

\* C14: no step removes or changes a committed Users, Artists or Tags row.
Thm_C14 ==
    [][/\ dbc.Users \subseteq dbc'.Users
       /\ dbc.Artists \subseteq dbc'.Artists
       /\ dbc.Tags \subseteq dbc'.Tags]_vars

\* the error budget tripped in a later run, with rows of all three tables
\* committed before
Wit_C14 ==
    /\ pc = "toomany"
    /\ runs > 1
    /\ Cardinality(dbc.Users) > 1
    /\ Cardinality(dbc.Artists) > 1
    /\ dbc.Tags # {}

\* C15: under CacheSpec, for every key the lookup gives the tmp value if
\* there is one, else the store value, else nothing; a write changes tmp
\* only (and there only the written key); commit keeps the lookup of every
\* key and empties tmp; rollback keeps the store layer and gives every key
\* the lookup it had after the last commit or rollback.
Thm_C15 ==
    /\ [](\A k \in CacheKeySet :
             Lookup(users, k) =
                 IF k \in DOMAIN users.tmp THEN <<users.tmp[k]>>
                 ELSE IF k \in DOMAIN users.store THEN <<users.store[k]>>
                 ELSE <<>>)
    /\ [][/\ pc' = "set" =>
               /\ users'.store = users.store
               /\ \E k \in CacheKeySet, v \in CacheVals :
                    /\ users'.tmp = (k :> v) @@ users.tmp
                    /\ Lookup(users', k) = <<v>>
                    /\ \A o \in CacheKeySet \ {k} :
                         Lookup(users', o) = Lookup(users, o)
          /\ pc' = "commit" =>
               /\ \A k \in CacheKeySet : Lookup(users', k) = Lookup(users, k)
               /\ DOMAIN users'.tmp = {}
          /\ pc' = "rollback" =>
               /\ users'.store = users.store
               /\ DOMAIN users'.tmp = {}
               /\ \A k \in CacheKeySet :
                    Lookup(users', k) = Lookup(artists, k)]_vars

\* after a write, tmp shadows a committed key with another value and holds
\* a key the store does not have, on top of an earlier commit or rollback
\* that left a different lookup for both
Wit_C15 ==
    /\ pc = "set"
    /\ DOMAIN users.store = {"RJ"}
    /\ DOMAIN users.tmp = {"RJ", "A"}
    /\ users.tmp["RJ"] # users.store["RJ"]
    /\ Lookup(artists, "RJ") # Lookup(users, "RJ")
    /\ Lookup(artists, "A") = <<>>

\* no cache holds a pending entry
NoPending ==
    /\ DOMAIN users.tmp = {}
    /\ DOMAIN artists.tmp = {}
    /\ DOMAIN tags.tmp = {}
    /\ DOMAIN friends.tmp = {}

\* C16: when scrape_user begins, and whenever run() is between two visits,
\* no cache holds a pending entry; between the return of scrape_user and
\* the next step of the loop run() either commits all four caches (tmp
\* merged into store), after the store committed, or rolls all four back
\* (store layers unchanged), after the store rolled back.
Thm_C16 ==
    /\ []((pc \in {"loop", "refill"} \/ (pc = "visit" /\ visit.phase = "user"))
             => NoPending)
    /\ [](pc \in {"assign", "sync"} =>
             /\ db = dbc
             /\ visit.userid # None <=>
                  \E r \in dbc.Users : r.name = visit.name)
    /\ [][(pc = "sync" /\ pc' = "loop") =>
            /\ NoPending'
            /\ db' = dbc /\ dbc' = dbc
            /\ \/ /\ visit.userid # None
                  /\ users'.store = (visit.name :> visit.userid) @@ users.store
                  /\ artists'.store = artists.tmp @@ artists.store
                  /\ tags'.store = tags.tmp @@ tags.store
                  /\ friends'.store = friends.tmp @@ friends.store
               \/ /\ visit.userid = None
                  /\ users'.store = users.store
                  /\ artists'.store = artists.store
                  /\ tags'.store = tags.store
                  /\ friends'.store = friends.store]_vars

\* a visit begins after one visit of this run committed artists, tags and
\* edges and another one was rolled back
Wit_C16 ==
    /\ pc = "visit"
    /\ visit.phase = "user"
    /\ runs = 1
    /\ errcnt > 0
    /\ DOMAIN artists.store = ArtistNames
    /\ DOMAIN tags.store # {}
    /\ DOMAIN friends.store # {}

\* C17: the step rescrape takes for a committed member with missing weeks
\* starts a visit that is at its weekly step at once, with the member's
\* committed id, nothing written to the store and no friends step ahead,
\* whatever the edge-recording option.
CE_C17 ==
    [][(pc = "rescrape" /\ todo # {} /\ todo' = todo
          /\ pc' \notin {"rescrape", "interrupted", "OperationalError"}) =>
            /\ pc' = "visit"
            /\ visit'.name \in todo
            /\ visit'.userid = CacheGet(users, visit'.name)
            /\ visit'.phase = "weeks"
            /\ db' = db
            /\ friends' = friends]_vars

\* C18: while run() has not finished rescrape's loop over the committed
\* members, the queue is empty, no member was picked for a refill and no
\* visit is under way; the queue is touched and visits run only once no
\* member is left to iterate.
Thm_C18 ==
    /\ pc \in {"init", "start", "rescrape"} =>
         (queue = <<>> /\ user = "" /\ visit = NoVisit)
    /\ (pc \in {"loop", "refill", "visit", "counted", "assign", "sync"}
          \/ queue # <<>> \/ visit # NoVisit)
         => todo = {}

\* a new member is visited in a run that found committed members, with
\* target weeks, to iterate first
Wit_C18 ==
    /\ pc = "visit"
    /\ runs > 1
    /\ Cardinality(dbc.Users) > 1
    /\ weeks # <<>>
    /\ ~CacheHas(users, visit.name)
    /\ todo = {}

\* C19: a visit is under way only while fewer members than the limit are
\* committed; the step that commits a visit adds exactly one Users row and
\* no other step adds any, so no step takes the number of committed members
\* above the larger of the limit and what it was; at the normal return of
\* run() the limit is reached, and exactly reached in a run that started
\* on an empty store.
Thm_C19 ==
    /\ [](pc = "visit" =>
             /\ Cardinality(dbc.Users) < opts.limit
             /\ CacheLen(users) = Cardinality(dbc.Users))
    /\ [](pc \in {"counted", "assign", "sync"} =>
             Cardinality(dbc.Users) <= opts.limit)
    /\ [](pc = "done" => Cardinality(dbc.Users) >= opts.limit)
    /\ []((pc = "done" /\ runs = 1) => Cardinality(dbc.Users) = opts.limit)
    /\ [][/\ Cardinality(dbc'.Users) <=
                Max({Cardinality(dbc.Users), opts.limit})
          /\ IF pc = "visit" /\ pc' = "assign" /\ errcnt' = errcnt
             THEN Cardinality(dbc'.Users) = Cardinality(dbc.Users) + 1
             ELSE Cardinality(dbc'.Users) = Cardinality(dbc.Users)]_vars

\* run() has returned normally at a limit above one, after a visit of this
\* run had failed
Wit_C19 ==
    /\ pc = "done"
    /\ opts.limit > 1
    /\ Cardinality(dbc.Users) = opts.limit
    /\ errcnt > 0

\* C20: no visit is under way for a name that has a Users row or is in
\* visited; popping a name that is in visited changes nothing but the
\* queue: no visit, no error counted, the store untouched; and Users holds
\* at most one row per name.
Thm_C20 ==
    /\ [](pc = "visit" =>
             /\ ~CacheHas(users, visit.name)
             /\ \A r \in dbc.Users : r.name # visit.name)
    /\ [](\A d \in {db, dbc} :
             \A r1, r2 \in d.Users : r1.name = r2.name => r1 = r2)
    /\ [][(pc = "loop" /\ queue # <<>> /\ queue' # queue
             /\ pc' # "interrupted"
             /\ CacheHas(users, queue[Len(queue)])) =>
            /\ queue' = SubSeq(queue, 1, Len(queue) - 1)
            /\ pc' = "loop"
            /\ visit' = NoVisit
            /\ errcnt' = errcnt
            /\ db' = db
            /\ dbc' = dbc
            /\ users' = users]_vars

\* the refill from A sampled both its friends; RJ, already visited, was
\* popped and dropped, and B is what is left in the queue
Wit_C20 ==
    /\ pc = "loop"
    /\ user = "A"
    /\ queue = <<"B">>
    /\ CacheKeys(users) = {"RJ", "A"}
    /\ {{"A", "RJ"}, {"A", "B"}} \subseteq graph
    /\ errcnt = 0

\* C21: a step in which a remote request fails counts one error in the
\* handler of scrape_user, from where the run either returns to the loop of
\* run() or raises the ScraperException that main() catches before it
\* closes the store; no failure leaves the run on another path.
CE_C21 ==
    [][(errcnt' > errcnt \/ (pc' = "RemoteError" /\ pc # "RemoteError")) =>
          /\ errcnt' = errcnt + 1
          /\ pc' = "counted"
          /\ Handled("ScraperException")]_vars

\* C22: in the committed store every WeeklyArtistChart row references a
\* Users row and an Artists row, every ArtistTags row an Artists row and a
\* Tags row, and every Friends row two Users rows.
Thm_C22 ==
    LET uids == {r.id : r \in dbc.Users}
        aids == {r.id : r \in dbc.Artists}
        tids == {r.id : r \in dbc.Tags}
    IN  /\ \A r \in dbc.WeeklyArtistChart : r.user \in uids /\ r.artist \in aids
        /\ \A r \in dbc.ArtistTags : r.artist \in aids /\ r.tag \in tids
        /\ \A r \in dbc.Friends : r.a \in uids /\ r.b \in uids

\* all six tables hold committed rows, with every edge of the triangle
\* recorded, after a visit of this run that had written rows was rolled
\* back
Wit_C22 ==
    /\ errcnt > 0
    /\ pc = "loop"
    /\ Cardinality(dbc.Users) = 3
    /\ Cardinality(dbc.Friends) = 3
    /\ Cardinality(dbc.Artists) = 3
    /\ Cardinality(dbc.ArtistTags) = 3
    /\ \E r \in dbc.WeeklyArtistChart : IsPlaceholder(dbc, r)
    /\ \E r \in dbc.WeeklyArtistChart : ~IsPlaceholder(dbc, r)

====
